---- MODULE Spec2Model ----
(***************************************************************************)
(* NGN.DATA.ConnectionPool (src/connectionpool.js): the pool object's      *)
(* fields, and one action per public operation.  Every operation is        *)
(* synchronous, so an action is one whole call, the listeners it runs      *)
(* included.  A JavaScript exception is a value of the field `error` that  *)
(* skips the rest of the call, as `throw` does.                            *)
(***************************************************************************)
EXTENDS Integers, Sequences, FiniteSets, TLC

\* ------------------------------------------------------------- bounds ----
MaxCount == 2                    \* registerClient stops raising a count here

Keys == {"k1", "k2"}             \* connection fingerprints callers use
Names == {"a"}                   \* client names callers supply
Guids == {"g1"}                  \* ids NGN.DATA.util.GUID() can generate
Handles == {"h1", "h2"}          \* connection objects
Emitters == {"h1"}               \* handles with an own property 'on'

AllNames == Names \cup Guids

\* ------------------------------------------------- JavaScript values ----
Undefined == "undefined"
Null == "null"
None == "-"                      \* a field of a call record that is not used

\* A number stored in the usage map: an integer, or NaN.
Num(n) == [nan |-> FALSE, n |-> n]
NaN == [nan |-> TRUE, n |-> 0]

\* x-- that takes 2 off.
Decrement_ByTwo(v) == IF v.nan THEN [nan |-> TRUE, n |-> 0] ELSE [nan |-> FALSE, n |-> v.n - 2]

\* x++ and x-- on a stored number (NaN stays NaN).
Increment(v) == IF v.nan THEN NaN ELSE Num(v.n + 1)
Decrement(v) == IF v.nan THEN NaN ELSE Num(v.n - 1)
\* a + b
Plus(a, b) == IF a.nan \/ b.nan THEN NaN ELSE Num(a.n + b.n)
\* v === 0
IsZero(v) == ~v.nan /\ v.n = 0

\* Plain objects are functions from their own enumerable keys.
EmptyObject == [x \in {} |-> x]
Put(m, k, v) == [x \in (DOMAIN m) \cup {k} |-> IF x = k THEN v ELSE m[x]]
Delete(m, k) == [x \in (DOMAIN m) \ {k} |-> m[x]]

\* ------------------------------------------------------------- state ----
VARIABLES
  clients,          \* this.clients: key -> (client name -> number)
  destroyOnDrain,   \* this.destroyOnDrain
  connectionpool,   \* this.connectionpool
  props,            \* accessor properties add() defines on the pool: key -> handle
  subs,             \* 'disconnect' listeners add() installed, in the order
                    \* of installation: <<handle, key>>
  last,             \* the call that just returned: arguments, outcome, events
  asked,            \* history: per key, what callers have asked the pool to hold
  pair,             \* history: a registerClient/unregisterClient round trip
  unseen,           \* history: per key, TRUE once a registerClient call met
                    \* NaN, so that the stored counts no longer tell how many
                    \* registrations of the key are outstanding
  replaced,         \* history: per key, <<h1, h2>> after add(key, h1) and then
                    \* add(key, h2, true), else <<>>
  life              \* history: per key, the last of connection.created and
                    \* connection.deleted emitted for it

vars == <<clients, destroyOnDrain, connectionpool, props, subs, last, asked,
          pair, unseen, replaced, life>>

\* The part of the pool a call works on, with the events it emitted so far
\* and the exception in flight, if any.
\* seen[i] is the pool as it is when events[i] is emitted; removals are the
\* calls of remove by the connection.drained listener, with the usage map
\* they found.  listener is the listener callers have installed on the pool
\* while the call runs, ran whether it was called.
NoListener == [on |-> "none", first |-> FALSE, name |-> None]

Frame == [clients |-> clients, props |-> props, subs |-> subs,
          events |-> <<>>, error |-> "none",
          seen |-> <<>>, removals |-> <<>>, listener |-> NoListener,
          ran |-> FALSE]

\* The listeners of callers: on client.disconnected or connection.drained,
\* one that registers a client for the key of the event.  On
\* connection.drained it is installed with on() and runs after the pool's
\* own listener, or with prependListener() and runs before it.
Listeners ==
  {NoListener}
  \cup {[on |-> "client.disconnected", first |-> FALSE, name |-> n] : n \in Names}
  \cup {[on |-> "connection.drained", first |-> f, name |-> n] :
          f \in BOOLEAN, n \in Names}

Event(type, id, client, connection) ==
  [type |-> type, id |-> id, client |-> client, connection |-> connection]

Emit(st, ev) ==
  [st EXCEPT !.events = Append(@, ev),
             !.seen = Append(@, [clients |-> st.clients, props |-> st.props])]
Throw(st, e) == [st EXCEPT !.error = e]

\* `this[key]`: the getter defined by add() emits connection.used and returns
\* the handle; without the property the read gives undefined.
ReadKey(st, key) ==
  IF key \in DOMAIN st.props
  THEN [st |-> Emit(st, Event("connection.used", key, None, None)),
        value |-> st.props[key]]
  ELSE [st |-> st, value |-> Undefined]

\* NGN.coalesce on a property of a plain object: the stored value unless the
\* property is missing (undefined), then the default.
Coalesce(m, k, default) == IF k \in DOMAIN m THEN m[k] ELSE default


\* ------------------------------------------------------------ remove ----
\* remove (key), lines 166-184.
remove(st, key) ==
  IF connectionpool = Undefined
  THEN Throw(st, "TypeError")                  \* 167: undefined.hasOwnProperty
  ELSE IF key \notin DOMAIN connectionpool
  THEN Emit(st, Event("NGN.ADVISORY.WARN", key, None, None))          \* 168
  ELSE LET r == ReadKey(st, key)               \* 173: old.connection = this[key]
       IN IF key \in DOMAIN r.st.props
          THEN Throw(r.st, "TypeError")        \* 176: delete of a non-configurable
                                               \* property, strict mode
          ELSE LET c == IF key \in DOMAIN r.st.clients             \* 178-180
                        THEN [r.st EXCEPT !.clients = Delete(@, key)]
                        ELSE r.st
               IN Emit(c, Event("connection.deleted", key, None, r.value))

\* The listener the constructor installs on connection.drained, lines 79-83.
\* emit runs it synchronously; what it throws comes out of emit.
onDrained(st, id, destroy) ==
  IF destroy
  THEN remove([st EXCEPT !.removals =
                 Append(@, [key |-> id, clients |-> st.clients])], id)
  ELSE st

\* --------------------------------------------------------------- add ----
\* add (key, value, overwrite), lines 122-157.
add(st, key, value, overwrite) ==
  IF connectionpool = Undefined
  THEN Throw(st, "TypeError")                  \* 125: undefined.hasOwnProperty
  ELSE LET exists == key \in DOMAIN connectionpool IN
    IF exists /\ value = connectionpool[key]
    THEN st                                                          \* 127
    ELSE IF exists /\ ~overwrite
    THEN Throw(st, "DatabaseConnectionError")                        \* 129
    ELSE IF key \in DOMAIN st.props
    THEN Throw(st, "TypeError")                \* 136: the property is not
                                               \* configurable, cannot redefine
    ELSE LET d == [st EXCEPT !.props = Put(@, key, value)]           \* 136
             s == IF value \in Emitters                              \* 144
                  THEN [d EXCEPT !.subs = Append(@, <<value, key>>)]
                  ELSE d
         IN IF ~exists                                               \* 151
            THEN Emit(s, Event("connection.created", key, None, value))
            ELSE s

\* -------------------------------------------------------- disconnect ----
\* The handle emits 'disconnect': the listeners add() installed on it run in
\* the order of installation, each calling remove(key), lines 145-147; what
\* one throws ends the delivery and reaches whoever made the handle emit.
RECURSIVE disconnect(_, _, _)
disconnect(st, handle, i) ==
  IF i > Len(st.subs) \/ st.error # "none" THEN st
  ELSE IF st.subs[i][1] = handle
  THEN disconnect(remove(st, st.subs[i][2]), handle, i + 1)
  ELSE disconnect(st, handle, i + 1)

\* ---------------------------------------------------- registerClient ----
\* registerClient with line 198 as `this.clients[key] = {}`: the other clients
\* of the key are dropped.
registerClient_ResetsKey(st, key, id) ==
  [st EXCEPT !.clients = Put(@, key, Put(EmptyObject, id, Increment(Num(0))))]

\* registerClient (key, name), lines 197-205, with id the value of
\* NGN.coalesce(name, GUID()).  The result carries the returned id.
registerClient(st, key, id) ==
  LET forKey == Coalesce(st.clients, key, EmptyObject)               \* 198
      count == Coalesce(forKey, id, Num(0))                          \* 201
  IN [st EXCEPT !.clients = Put(@, key, Put(forKey, id, Increment(count)))]

\* The callers' listener when the pool emits an event of this type for key:
\* it calls registerClient(key, name).
Deliver(st, type, key) ==
  IF st.listener.on = type
  THEN [registerClient(st, key, st.listener.name) EXCEPT !.ran = TRUE]
  ELSE st

\* emit('connection.drained', key), line 231: the listeners in the order of
\* their installation; what one throws ends the delivery.
emitDrained(st, key, destroy) ==
  LET e == Emit(st, Event("connection.drained", key, None, None))
      before == IF e.listener.first THEN Deliver(e, "connection.drained", key)
                ELSE e
      own == onDrained(before, key, destroy)
  IN IF own.error = "none" /\ ~own.listener.first
     THEN Deliver(own, "connection.drained", key)
     ELSE own

\* -------------------------------------------------- unregisterClient ----
\* unregisterClientTry without line 230: the drained key keeps its (empty)
\* usage entry.
unregisterClientTry_KeepsDrainedKey(st, key, name, destroy) ==
  IF key \notin DOMAIN st.clients
  THEN Throw(st, "TypeError")
  ELSE
    LET old == st.clients[key]
        dec == IF name \in DOMAIN old THEN Decrement(old[name]) ELSE NaN
        s1 == [st EXCEPT !.clients = Put(@, key, Put(old, name, dec))]
        s2 == IF IsZero(dec)
              THEN LET d == [s1 EXCEPT !.clients =
                               Put(@, key, Delete(s1.clients[key], name))]
                       r == ReadKey(d, key)
                   IN Deliver(Emit(r.st, Event("client.disconnected", key,
                                               name, r.value)),
                              "client.disconnected", key)
              ELSE s1
    IN IF DOMAIN s2.clients[key] = {}
       THEN emitDrained(s2, key, destroy)
       ELSE s2

\* The try block of unregisterClient, lines 219-232.
unregisterClientTry(st, key, name, destroy) ==
  IF key \notin DOMAIN st.clients
  THEN Throw(st, "TypeError")                  \* 219: undefined[name]
  ELSE
    LET old == st.clients[key]
        \* 219: x-- on a missing property stores ToNumber(undefined) - 1
        dec == IF name \in DOMAIN old THEN Decrement(old[name]) ELSE NaN
        s1 == [st EXCEPT !.clients = Put(@, key, Put(old, name, dec))]
        s2 == IF IsZero(dec)                                         \* 220
              THEN LET d == [s1 EXCEPT !.clients =
                               Put(@, key, Delete(s1.clients[key], name))]
                       r == ReadKey(d, key)                          \* 223
                   IN Deliver(Emit(r.st, Event("client.disconnected", key,
                                               name, r.value)),      \* 222
                              "client.disconnected", key)
              ELSE s1
    IN IF DOMAIN s2.clients[key] = {}                                \* 229
       THEN emitDrained([s2 EXCEPT !.clients = Delete(@, key)],      \* 230
                        key, destroy)                                \* 231
       ELSE s2

\* unregisterClient (key, name), lines 217-234: catch (e) {} drops whatever
\* the try block threw and keeps what it had done until then.
unregisterClient(st, key, name, destroy) ==
  [unregisterClientTry(st, key, name, destroy) EXCEPT !.error = "none"]

\* ------------------------------------------------- activeConnections ----
RECURSIVE SumOver(_, _)
SumOver(m, ks) ==
  IF ks = {} THEN Num(0)
  ELSE LET k == CHOOSE x \in ks : TRUE
       IN Plus(m[k], SumOver(m, ks \ {k}))

\* The number of clients of a key, not the sum of their counts.
SumOfKey_CountsNames(cl, key) == Num(Cardinality(DOMAIN cl[key]))

\* The sum of the numbers stored under one key, lines 252-254.
SumOfKey(cl, key) == SumOver(cl[key], DOMAIN cl[key])

RECURSIVE SumAll(_, _)
SumAll(cl, ks) ==
  IF ks = {} THEN Num(0)
  ELSE LET k == CHOOSE x \in ks : TRUE
       IN Plus(SumOfKey(cl, k), SumAll(cl, ks \ {k}))

\* activeConnections (id), lines 244-264.
activeConnections(cl, id) ==
  IF id # Null
  THEN IF id \notin DOMAIN cl THEN Num(0) ELSE SumOfKey(cl, id)
  ELSE SumAll(cl, DOMAIN cl)

\* --------------------------------------------------- call histories ----
\* The record of a call: its arguments, what it returned or threw, the events
\* emitted while it ran, and the state it started from.
Call(op, key, name, value, overwrite, st, ret, num) ==
  [op |-> op, key |-> key, name |-> name, value |-> value,
   overwrite |-> overwrite, error |-> st.error, ret |-> ret, num |-> num,
   events |-> st.events, seen |-> st.seen, removals |-> st.removals,
   listener |-> st.listener, ran |-> st.ran,
   pre |-> [clients |-> clients, props |-> props,
            destroyOnDrain |-> destroyOnDrain, asked |-> asked,
            unseen |-> unseen, replaced |-> replaced]]

NoCall ==
  [op |-> "new", key |-> None, name |-> None, value |-> None,
   overwrite |-> FALSE, error |-> "none", ret |-> None, num |-> Num(0),
   events |-> <<>>, seen |-> <<>>, removals |-> <<>>,
   listener |-> NoListener, ran |-> FALSE,
   pre |-> [clients |-> EmptyObject, props |-> EmptyObject,
            destroyOnDrain |-> TRUE, asked |-> [k \in Keys |-> "never"],
            unseen |-> [k \in Keys |-> FALSE],
            replaced |-> [k \in Keys |-> <<>>]]]

IsHandle(x) == x \in Handles

\* How often an event of this type for this key is in a sequence of events.
CountEvents(evs, type, key) ==
  Cardinality({i \in 1..Len(evs) : evs[i].type = type /\ evs[i].id = key})

\* The event types of a sequence of events, in order.
Types(evs) == [i \in 1..Len(evs) |-> evs[i].type]

\* asked[k] is "never" while no caller has called add(k, ...), then the handle
\* h of the one add(k, h) call made; it becomes "unknown" with the next call
\* that is meant to change what k holds (another add, a remove, a drain of k
\* while destroyOnDrain is set).
AskedAfterAdd(key, value) ==
  [asked EXCEPT ![key] = IF @ = "never" THEN value ELSE "unknown"]
AskedAfterRemove(key) ==
  [asked EXCEPT ![key] = "unknown"]
AskedAfterUnregister(key, st) ==
  IF CountEvents(st.events, "connection.drained", key) > 0
     /\ destroyOnDrain /\ asked[key] # "never"
  THEN [asked EXCEPT ![key] = "unknown"]
  ELSE asked

AskedAfterDisconnect(handle) ==
  [k \in Keys |-> IF asked[k] = handle THEN "unknown" ELSE asked[k]]

\* replaced[k] is <<h1, h2>> from the add(k, h2, true) that follows the one
\* add(k, h1) made, h2 # h1, until the next call meant to change what k
\* holds.
ReplacedAfterAdd(key, value, overwrite) ==
  [replaced EXCEPT ![key] =
     IF IsHandle(asked[key]) /\ asked[key] # value /\ overwrite
     THEN <<asked[key], value>> ELSE <<>>]
ReplacedAfterRemove(key) == [replaced EXCEPT ![key] = <<>>]
ReplacedAfterUnregister(key, st) ==
  IF CountEvents(st.events, "connection.drained", key) > 0 /\ destroyOnDrain
  THEN [replaced EXCEPT ![key] = <<>>]
  ELSE replaced
ReplacedAfterDisconnect(handle) ==
  [k \in Keys |-> IF replaced[k] # <<>> /\ replaced[k][2] = handle
                  THEN <<>> ELSE replaced[k]]

\* unseen after a registerClient(key, id) that left the pool in st: the call
\* met NaN exactly when NaN is what it left stored.
UnseenAfterRegister(key, id, st) ==
  [unseen EXCEPT ![key] = @ \/ Coalesce(Coalesce(st.clients, key, EmptyObject),
                                        id, Num(0)).nan]

\* life after the events of a call: "broken" once connection.created and
\* connection.deleted of a key did not alternate, starting with created.
RECURSIVE LifeAfter(_, _, _)
LifeAfter(lf, evs, i) ==
  IF i > Len(evs) THEN lf
  ELSE LET e == evs[i] IN
    IF e.type = "connection.created"
    THEN LifeAfter([lf EXCEPT ![e.id] =
                      IF @ \in {"none", "deleted"} THEN "created" ELSE "broken"],
                   evs, i + 1)
    ELSE IF e.type = "connection.deleted"
    THEN LifeAfter([lf EXCEPT ![e.id] =
                      IF @ = "created" THEN "deleted" ELSE "broken"],
                   evs, i + 1)
    ELSE LifeAfter(lf, evs, i + 1)

\* pair follows a registerClient(key, id) on a key without usage entry and the
\* unregisterClient(key, id) that comes right after it.
NoPair ==
  [phase |-> "none", key |-> None, id |-> None, before |-> EmptyObject,
   drained |-> 0]

\* ----------------------------------------------------------- actions ----
Commit(st) ==
  /\ clients' = st.clients
  /\ props' = st.props
  /\ subs' = st.subs
  /\ life' = LifeAfter(life, st.events, 1)
  /\ UNCHANGED connectionpool

Add(key, value, overwrite) ==
  LET st == add(Frame, key, value, overwrite) IN
  /\ Commit(st)
  /\ last' = Call("add", key, None, value, overwrite, st, None, Num(0))
  /\ asked' = AskedAfterAdd(key, value)
  /\ replaced' = ReplacedAfterAdd(key, value, overwrite)
  /\ pair' = NoPair
  /\ UNCHANGED <<destroyOnDrain, unseen>>

Remove(key) ==
  LET st == remove(Frame, key) IN
  /\ Commit(st)
  /\ last' = Call("remove", key, None, None, FALSE, st, None, Num(0))
  /\ asked' = AskedAfterRemove(key)
  /\ replaced' = ReplacedAfterRemove(key)
  /\ pair' = NoPair
  /\ UNCHANGED <<destroyOnDrain, unseen>>

\* A handle with the 'on' capability emits 'disconnect'.
Disconnect(handle) ==
  LET st == disconnect(Frame, handle, 1) IN
  /\ Commit(st)
  /\ last' = Call("disconnect", None, None, handle, FALSE, st, None, Num(0))
  /\ asked' = AskedAfterDisconnect(handle)
  /\ replaced' = ReplacedAfterDisconnect(handle)
  /\ pair' = NoPair
  /\ UNCHANGED <<destroyOnDrain, unseen>>

\* name is a client name or null; null makes GUID() generate an id no client
\* has.  The guard keeps the counts within MaxCount.
RegisterClient(key, name) ==
  \E id \in AllNames :
    /\ IF name = Null
       THEN id \in Guids /\ \A k \in DOMAIN clients : id \notin DOMAIN clients[k]
       ELSE id = name
    /\ LET count == Coalesce(Coalesce(clients, key, EmptyObject), id, Num(0))
       IN count.nan \/ count.n < MaxCount
    /\ LET st == registerClient(Frame, key, id) IN
       /\ Commit(st)
       /\ last' = Call("registerClient", key, name, None, FALSE, st, id, Num(0))
       /\ pair' = IF key \notin DOMAIN clients
                  THEN [phase |-> "open", key |-> key, id |-> id,
                        before |-> clients,
                        drained |-> CountEvents(st.events, "connection.drained", key)]
                  ELSE NoPair
       /\ unseen' = UnseenAfterRegister(key, id, st)
    /\ UNCHANGED <<asked, destroyOnDrain, replaced>>

\* The guard keeps the count the listener raises within MaxCount.
UnregisterClient(key, name, listener) ==
  LET st == unregisterClient([Frame EXCEPT !.listener = listener],
                             key, name, destroyOnDrain) IN
  /\ listener # NoListener /\ listener.name # name
       => LET count == Coalesce(Coalesce(clients, key, EmptyObject),
                                listener.name, Num(0))
          IN count.nan \/ count.n < MaxCount
  /\ Commit(st)
  /\ last' = Call("unregisterClient", key, name, None, FALSE, st, None, Num(0))
  /\ asked' = AskedAfterUnregister(key, st)
  /\ replaced' = ReplacedAfterUnregister(key, st)
  /\ unseen' = IF st.ran THEN UnseenAfterRegister(key, listener.name, st)
               ELSE unseen
  /\ pair' = IF pair.phase = "open" /\ pair.key = key /\ pair.id = name
             THEN [pair EXCEPT !.phase = "closed",
                     !.drained = @ + CountEvents(st.events, "connection.drained", key)]
             ELSE NoPair
  /\ UNCHANGED destroyOnDrain

ActiveConnections(id) ==
  /\ last' = Call("activeConnections", id, None, None, FALSE, Frame, None,
                  activeConnections(clients, id))
  /\ pair' = NoPair
  /\ UNCHANGED <<clients, destroyOnDrain, connectionpool, props, subs, asked,
                 unseen, replaced, life>>

\* pool[key], the property read.
Get(key) ==
  LET r == ReadKey(Frame, key) IN
  /\ Commit(r.st)
  /\ last' = Call("get", key, None, None, FALSE, r.st, r.value, Num(0))
  /\ pair' = NoPair
  /\ UNCHANGED <<asked, destroyOnDrain, unseen, replaced>>

\* set deleteOnEmpty (value), lines 104-106.
SetDeleteOnEmpty(value) ==
  /\ destroyOnDrain' = value
  /\ last' = Call("deleteOnEmpty", None, None, None, FALSE, Frame, None, Num(0))
  /\ pair' = NoPair
  /\ UNCHANGED <<clients, connectionpool, props, subs, asked, unseen, replaced,
                 life>>

\* The pool after its constructor, lines 65-84: clients and destroyOnDrain
\* are the only properties it defines; connectionpool is not among them.
Init ==
  /\ clients = EmptyObject
  /\ destroyOnDrain = TRUE
  /\ connectionpool = Undefined
  /\ props = EmptyObject
  /\ subs = <<>>
  /\ last = NoCall
  /\ asked = [k \in Keys |-> "never"]
  /\ pair = NoPair
  /\ unseen = [k \in Keys |-> FALSE]
  /\ replaced = [k \in Keys |-> <<>>]
  /\ life = [k \in Keys |-> "none"]

\* The calls callers make: connections under the keys in cs with the handles
\* in hs, clients of the keys in ks, listeners from ls.
Calls(cs, hs, ks, ls) ==
  \/ \E key \in cs, value \in hs, overwrite \in BOOLEAN :
       Add(key, value, overwrite)
  \/ \E key \in cs : Remove(key)
  \/ \E handle \in Emitters : Disconnect(handle)
  \/ \E key \in ks, name \in Names \cup {Null} : RegisterClient(key, name)
  \/ \E key \in ks, name \in AllNames, listener \in ls :
       UnregisterClient(key, name, listener)
  \/ \E id \in cs \cup ks \cup {Null} : ActiveConnections(id)
  \/ \E key \in cs \cup ks : Get(key)
  \/ \E value \in BOOLEAN : SetDeleteOnEmpty(value)

\* Connections under every key with every handle, clients of one key, no
\* listener on the pool.
Next == Calls(Keys, Handles, {"k1"}, {NoListener})

Spec == Init /\ [][Next]_vars

\* Clients of every key, connections under one key with every handle, no listener
\* on the pool.
NextClients == Calls({"k1"}, Handles, Keys, {NoListener})

SpecClients == Init /\ [][NextClients]_vars

\* Listeners on the pool that call back into it, one key.
NextListeners == Calls({"k1"}, Handles, {"k1"}, Listeners)

SpecListeners == Init /\ [][NextListeners]_vars

\* ------------------------------------------------------------ claims ----

\* The pool's own notifications among the events of a call.
PoolEvents(evs) ==
  SelectSeq(Types(evs), LAMBDA t : t \in {"connection.created",
     "connection.deleted", "connection.drained", "client.disconnected"})

\* C1: once an operation has returned, every key with an entry in the usage
\* map has client counts that sum to at least 1.
C1_UsageSumAtLeastOne ==
  \A k \in DOMAIN clients :
    LET sum == SumOfKey(clients, k) IN ~sum.nan /\ sum.n >= 1

\* C2: every count stored in the usage map is an integer, and a pair whose
\* count reached 0 is not stored: no zero, negative or non-numeric count.
C2_StoredCountsArePositiveIntegers ==
  \A k \in DOMAIN clients : \A n \in DOMAIN clients[k] :
    ~clients[k][n].nan /\ clients[k][n].n >= 1

\* C3: add(key, h2, overwrite=false) on a key that was added with another
\* handle h1 fails with DatabaseConnectionError, emits nothing, and leaves h1
\* under key and the usage map as it was.
C3_ConflictingAddIsRejected ==
  (/\ last.op = "add"
   /\ IsHandle(last.pre.asked[last.key])
   /\ last.value # last.pre.asked[last.key]
   /\ ~last.overwrite)
  => /\ last.error = "DatabaseConnectionError"
     /\ last.events = <<>>
     /\ ReadKey(Frame, last.key).value = last.pre.asked[last.key]
     /\ clients = last.pre.clients

\* C4: add(key, h) on a key that was added with that same handle h raises no
\* error, emits no event and changes nothing, whatever overwrite is.
C4_SameHandleAddIsIdempotent ==
  (last.op = "add" /\ last.pre.asked[last.key] = last.value)
  => /\ last.error = "none"
     /\ last.events = <<>>
     /\ props = last.pre.props
     /\ clients = last.pre.clients

\* C5: add(key, h2, overwrite=true) on a key that was added with another
\* handle h1 succeeds, emits no connection.created, and the key then reads h2.
C5_OverwriteReplacesHandle ==
  (/\ last.op = "add"
   /\ IsHandle(last.pre.asked[last.key])
   /\ last.value # last.pre.asked[last.key]
   /\ last.overwrite)
  => /\ last.error = "none"
     /\ CountEvents(last.events, "connection.created", last.key) = 0
     /\ ReadKey(Frame, last.key).value = last.value

\* C6: with deleteOnEmpty true and key added, the unregisterClient that takes
\* the last client count of key from 1 to 0 emits client.disconnected,
\* connection.drained, connection.deleted, in this order and once each, and
\* leaves key absent from the connections and from the usage map.
C6_LastUnregisterDrainsAndDeletes ==
  (/\ last.op = "unregisterClient"
   /\ last.listener = NoListener
   /\ last.pre.destroyOnDrain
   /\ IsHandle(last.pre.asked[last.key])
   /\ last.key \in DOMAIN last.pre.clients
   /\ DOMAIN last.pre.clients[last.key] = {last.name}
   /\ last.pre.clients[last.key][last.name] = Num(1))
  => /\ PoolEvents(last.events) =
          <<"client.disconnected", "connection.drained", "connection.deleted">>
     /\ last.key \notin DOMAIN props
     /\ last.key \notin DOMAIN clients

\* C7: registerClient(key, c) on a key without usage entry, followed at once
\* by unregisterClient(key, c), leaves the usage map as it was before the two
\* calls, without an entry for key, and connection.drained for key was
\* emitted exactly once during the two calls (no listener calling the pool
\* in between).
C7_RegisterUnregisterRoundTrip ==
  (pair.phase = "closed" /\ ~last.ran)
  => /\ clients = pair.before
     /\ pair.key \notin DOMAIN clients
     /\ pair.drained = 1

\* C7 happens: a round trip on one key while the other key has clients.
C7_Witness ==
  /\ pair.phase = "closed"
  /\ last.op = "unregisterClient"
  /\ last.key = pair.key
  /\ pair.before # EmptyObject
  /\ CountEvents(last.events, "connection.drained", pair.key) = 1

\* C8: unregisterClient(key, name) for a key without usage entry, or a name
\* without count under key, throws nothing, emits nothing and changes neither
\* the connections nor the usage map.
C8_UnknownUnregisterChangesNothing ==
  (/\ last.op = "unregisterClient"
   /\ \/ last.key \notin DOMAIN last.pre.clients
      \/ last.name \notin DOMAIN last.pre.clients[last.key])
  => /\ last.error = "none"
     /\ last.events = <<>>
     /\ clients = last.pre.clients
     /\ props = last.pre.props

\* C9: remove(key) of a key that was added deletes key from the connections
\* and its whole usage entry, and emits exactly one event, connection.deleted
\* with the key and the handle that was stored.
C9_RemoveDeletesConnectionAndUsage ==
  (last.op = "remove" /\ IsHandle(last.pre.asked[last.key]))
  => /\ last.key \notin DOMAIN props
     /\ last.key \notin DOMAIN clients
     /\ activeConnections(clients, last.key) = Num(0)
     /\ last.events =
          <<Event("connection.deleted", last.key, None, last.pre.asked[last.key])>>

\* C10: remove(key) of a key that was never added does not throw, emits
\* nothing but the advisory warning, and changes neither the connections nor
\* the usage map.
C10_RemoveOfUnknownKeyIsAdvisoryOnly ==
  (last.op = "remove" /\ last.pre.asked[last.key] = "never")
  => /\ last.error = "none"
     /\ \A i \in 1..Len(last.events) : last.events[i].type = "NGN.ADVISORY.WARN"
     /\ clients = last.pre.clients
     /\ props = last.pre.props

\* The stored values of one key, as units: one <<name, i>> per usage counted.
Units(m) == UNION {{<<n, i>> : i \in 1..m[n].n} : n \in DOMAIN m}
HasNaN(m) == \E n \in DOMAIN m : m[n].nan

\* What the numbers stored under key add up to: NaN when one of them is NaN,
\* 0 without entry.
TotalOfKey(cl, key) ==
  IF key \notin DOMAIN cl THEN Num(0)
  ELSE IF HasNaN(cl[key]) THEN NaN
  ELSE Num(Cardinality(Units(cl[key])))

\* What the numbers stored under all keys add up to.
TotalOfAll(cl) ==
  IF \E k \in DOMAIN cl : HasNaN(cl[k]) THEN NaN
  ELSE Num(Cardinality(UNION {{<<k, u>> : u \in Units(cl[k])} : k \in DOMAIN cl}))

\* C11: activeConnections(key) returns the sum of the counts stored under key
\* (0 without usage entry), activeConnections() the sum over all keys, and
\* neither changes the pool or emits an event.
C11_ActiveConnectionsIsTheSum ==
  last.op = "activeConnections"
  => /\ last.num = IF last.key = Null THEN TotalOfAll(clients)
                   ELSE TotalOfKey(clients, last.key)
     /\ clients = last.pre.clients
     /\ props = last.pre.props
     /\ destroyOnDrain = last.pre.destroyOnDrain
     /\ last.events = <<>>
     /\ last.error = "none"

\* C11 happens: the sum over two keys with clients, one counted twice.
C11_Witness ==
  /\ last.op = "activeConnections"
  /\ last.key = Null
  /\ DOMAIN clients = Keys
  /\ ~last.num.nan
  /\ last.num.n > Cardinality(UNION {{<<k, n>> : n \in DOMAIN clients[k]} : k \in Keys})

\* The number stored for (key, name), 0 when there is none.
StoredOrZero(cl, key, name) ==
  IF key \in DOMAIN cl /\ name \in DOMAIN cl[key] THEN cl[key][name] ELSE Num(0)

\* Every pair but (key, name) has in cl what it has in old.
OthersUnchanged(cl, old, key, name) ==
  /\ DOMAIN cl \ {key} = DOMAIN old \ {key}
  /\ \A k \in DOMAIN cl \ {key} : cl[k] = old[k]
  /\ key \in DOMAIN cl /\ key \in DOMAIN old
       => /\ DOMAIN cl[key] \ {name} = DOMAIN old[key] \ {name}
          /\ \A n \in DOMAIN cl[key] \ {name} : cl[key][n] = old[key][n]
  /\ key \in DOMAIN cl /\ key \notin DOMAIN old => DOMAIN cl[key] \subseteq {name}
  /\ key \notin DOMAIN cl /\ key \in DOMAIN old => DOMAIN old[key] \subseteq {name}

Disconnected(evs) ==
  Cardinality({i \in 1..Len(evs) : evs[i].type = "client.disconnected"})
DisconnectedOf(evs, key, name) ==
  Cardinality({i \in 1..Len(evs) : /\ evs[i].type = "client.disconnected"
                                   /\ evs[i].id = key
                                   /\ evs[i].client = name})

\* C13: unregisterClient(key, name) on a stored pair lowers its count by
\* exactly 1 and changes no other pair; client.disconnected is emitted, once
\* and for (key, name), exactly when the count goes from 1 to 0, and then the
\* pair is removed; from a count above 1 the pair stays and none of
\* client.disconnected, connection.drained, connection.deleted is emitted
\* (no listener calling the pool in between).
C13_UnregisterClientTakesOne ==
  (/\ last.op = "unregisterClient"
   /\ last.listener = NoListener
   /\ last.key \in DOMAIN last.pre.clients
   /\ last.name \in DOMAIN last.pre.clients[last.key])
  => LET old == last.pre.clients[last.key][last.name]
         stays == /\ last.key \in DOMAIN clients
                  /\ last.name \in DOMAIN clients[last.key]
     IN /\ last.error = "none"
        /\ StoredOrZero(clients, last.key, last.name) = Decrement(old)
        /\ OthersUnchanged(clients, last.pre.clients, last.key, last.name)
        /\ stays <=> old # Num(1)
        /\ Disconnected(last.events) = IF old = Num(1) THEN 1 ELSE 0
        /\ DisconnectedOf(last.events, last.key, last.name)
             = Disconnected(last.events)
        /\ old # Num(1) => PoolEvents(last.events) = <<>>

\* C13 happens: a count goes from 1 to 0 under a key that keeps another
\* client, whose count is 2.
C13_Witness ==
  /\ last.op = "unregisterClient"
  /\ last.key \in DOMAIN last.pre.clients
  /\ last.name \in DOMAIN last.pre.clients[last.key]
  /\ last.pre.clients[last.key][last.name] = Num(1)
  /\ last.key \in DOMAIN clients
  /\ last.name \notin DOMAIN clients[last.key]
  /\ \E n \in DOMAIN clients[last.key] : clients[last.key][n] = Num(2)
  /\ DisconnectedOf(last.events, last.key, last.name) = 1

\* C14: every notification finds the change it reports done: at
\* connection.created the key is among the connections; at
\* client.disconnected the pair is gone from the usage map and no key of the
\* usage map has an empty client map; at connection.drained the key has no
\* usage entry; at connection.deleted the key is in neither.
C14_NotificationsSeeTheChangeDone ==
  \A i \in 1..Len(last.events) :
    LET e == last.events[i]
        cl == last.seen[i].clients
        pr == last.seen[i].props
    IN /\ e.type = "connection.created" => e.id \in DOMAIN pr
       /\ e.type = "client.disconnected"
            => /\ e.id \in DOMAIN cl => e.client \notin DOMAIN cl[e.id]
               /\ \A k \in DOMAIN cl : DOMAIN cl[k] # {}
       /\ e.type = "connection.drained" => e.id \notin DOMAIN cl
       /\ e.type = "connection.deleted"
            => e.id \notin DOMAIN pr /\ e.id \notin DOMAIN cl

\* C15: with deleteOnEmpty false and key added with a handle, the
\* unregisterClient that takes the last client of key away removes the usage
\* entry of key and emits connection.drained, once, and no
\* connection.deleted, and key still reads the handle.
C15_DrainKeepsTheConnection ==
  (/\ last.op = "unregisterClient"
   /\ last.listener = NoListener
   /\ ~last.pre.destroyOnDrain
   /\ IsHandle(last.pre.asked[last.key])
   /\ last.key \in DOMAIN last.pre.clients
   /\ DOMAIN last.pre.clients[last.key] = {last.name}
   /\ last.pre.clients[last.key][last.name] = Num(1))
  => /\ last.key \notin DOMAIN clients
     /\ CountEvents(last.events, "connection.drained", last.key) = 1
     /\ CountEvents(last.events, "connection.deleted", last.key) = 0
     /\ ReadKey(Frame, last.key).value = last.pre.asked[last.key]

\* The registrations of (key, name) not yet matched by an unregisterClient,
\* as the usage map cl tells them while unseen is FALSE for key: the count,
\* and none for a name without count or with NaN.
Outstanding(cl, key, name) ==
  IF key \in DOMAIN cl /\ name \in DOMAIN cl[key] /\ ~cl[key][name].nan
  THEN cl[key][name].n ELSE 0

\* C16: with deleteOnEmpty true and key added with a handle, when the
\* unregisterClient that matches the last outstanding registration of key
\* has returned, key has no usage entry and is not among the connections.
\* All calls are synchronous: what the pool does about the last match it has
\* done when that call returns, and "eventually" is then.
C16_MatchedKeyIsReclaimed ==
  (/\ last.op = "unregisterClient"
   /\ last.listener = NoListener
   /\ last.pre.destroyOnDrain
   /\ IsHandle(last.pre.asked[last.key])
   /\ ~last.pre.unseen[last.key]
   /\ Outstanding(last.pre.clients, last.key, last.name) = 1
   /\ \A n \in AllNames \ {last.name} :
         Outstanding(last.pre.clients, last.key, n) = 0)
  => /\ last.key \notin DOMAIN clients
     /\ last.key \notin DOMAIN props

\* C17: when a handle with the 'on' capability emits 'disconnect', every key
\* it was added under is removed: the key is neither among the connections
\* nor in the usage map, and connection.deleted was emitted for it, once.
C17_DisconnectRemovesTheKey ==
  last.op = "disconnect"
  => \A k \in Keys :
       last.pre.asked[k] = last.value
       => /\ k \notin DOMAIN props
          /\ k \notin DOMAIN clients
          /\ CountEvents(last.events, "connection.deleted", k) = 1

C20_StaleDisconnectIsIgnored ==
  last.op = "disconnect"
  => \A k \in Keys :
       (last.pre.replaced[k] # <<>> /\ last.pre.replaced[k][1] = last.value)
       => /\ ReadKey(Frame, k).value = last.pre.replaced[k][2]
          /\ k \in DOMAIN last.pre.clients
               => k \in DOMAIN clients /\ clients[k] = last.pre.clients[k]
====
